---- MODULE Spec2Model ----
(***************************************************************************)
(* Model of citrine.storage.group: the Group of Collections (shards), its  *)
(* static factory Group.new, its constructor, the groupfn routing          *)
(* decorator and the keyed operations that go through it.                  *)
(*                                                                         *)
(* Python values are represented as follows.                               *)
(*   - an optional value is a sequence: None is <<>>, the value v is <<v>>;*)
(*   - a str key is the sequence of its code points;                       *)
(*   - a dict is the sequence of its items in insertion order, each item a *)
(*     record [key, val]; a dict key is a record [isint, n], so that a     *)
(*     non-integer key can sit beside the integer ones;                    *)
(*   - a raised exception is the name of its class in the field "out".     *)
(***************************************************************************)
EXTENDS Integers, Sequences, FiniteSets, TLC

VARIABLES
    call,      \* the arguments of the construction call, as the caller passed them
    custom,    \* the caller's custom dict object (Group.new writes into it)
    group,     \* the Group the construction returned, if any
    result,    \* what the last call did: operation, arguments, outcome
    written,   \* per key: the value and shard of its last successful insert
    writers    \* two concurrent callers of write operations, each call in
               \* two steps: the routing, then the shard's operation

vars == <<call, custom, group, result, written, writers>>

---------------------------------------------------------------------------
(* Bounds of the model *)

\* sizes passed to Group.new when only construction is explored: None, -1..MaxSize
MaxSize == 3
\* integer keys of a custom layout: -1..MaxIndex
MaxIndex == 3
\* number of items of a custom layout
MaxCustomLen == 2
\* shard capacities: 0..MaxCap
MaxCap == 1
\* shards handed to the Group constructor directly
MaxShards == 2
\* identifiers of the shards handed to the Group constructor: 1..MaxUuid
MaxUuid == 2
\* sizes passed to Group.new when the group is then operated on
OpMaxSize == 2
\* shards handed to the Group constructor when the group is then operated on
OpMaxShards == 2

None == <<>>
Some(v) == <<v>>

\* str keys "a", "ab" and "é" (U+00E9), as code points
Keys == {<<97>>, <<97, 98>>, <<233>>}
\* the values stored
Values == {1, 2}
Capacities == 0..MaxCap
MaxCollectionSizes == {1, MaxCap + 1}
NoKey == <<>>

---------------------------------------------------------------------------
(* Python dicts *)

IntKey(n) == [isint |-> TRUE, n |-> n]
\* a key that is not an int (a str, a float)
NonIntKey == [isint |-> FALSE, n |-> 0]

DictKeys(items) == {items[i].key : i \in 1..Len(items)}

\* key in d
HasKey(items, key) == key \in DictKeys(items)

\* d[key]
DictGet(items, key) ==
    LET i == CHOOSE j \in 1..Len(items) : items[j].key = key
    IN  items[i].val

\* d[key] = val: an existing key keeps its place, a new key goes last
DictSet(items, key, val) ==
    IF HasKey(items, key)
    THEN [i \in 1..Len(items) |->
            IF items[i].key = key THEN [key |-> key, val |-> val] ELSE items[i]]
    ELSE Append(items, [key |-> key, val |-> val])

\* max(d.keys()), for integer keys
MaxKey(items) ==
    LET ns == {k.n : k \in DictKeys(items)}
    IN  CHOOSE m \in ns : \A n \in ns : n <= m

\* the custom argument: absent (None) or a dict
NoCustom == [given |-> FALSE, items |-> <<>>]
Dict(items) == [given |-> TRUE, items |-> items]

\* Python truth of an optional int: None and 0 are false
TruthyInt(size) == size # None /\ size[1] # 0
\* Python truth of an optional dict: None and {} are false
TruthyDict(cust) == cust.given /\ Len(cust.items) > 0

---------------------------------------------------------------------------
(* Collection (the shard): citrine.storage.collection *)

EmptyData == [k \in {} |-> 0]

\* strict of a Collection constructed without a strict argument
DefaultStrict == FALSE

\* Collection(max_size=...): a new, empty shard with an identifier of its own
Collection(uuid, max_size) ==
    [uuid |-> uuid, max_size |-> max_size, strict |-> DefaultStrict,
     data |-> EmptyData]

CollectionSize(col) == Cardinality(DOMAIN col.data)

\* Collection.get(key, default)
CollectionGet(col, key, default) ==
    IF key \in DOMAIN col.data THEN Some(col.data[key]) ELSE default

\* Collection.insert(key, value): in strict mode a new key over capacity is
\* rejected and nothing is written
CollectionInsertFails(col, key) ==
    /\ col.strict
    /\ key \notin DOMAIN col.data
    /\ CollectionSize(col) + 1 > col.max_size

CollectionInsert(col, key, value) ==
    IF CollectionInsertFails(col, key)
    THEN col
    ELSE [col EXCEPT !.data =
            [k \in DOMAIN col.data \cup {key} |->
                IF k = key THEN value ELSE col.data[k]]]

\* Collection.pop(key, default)
CollectionPop(col, key) ==
    [col EXCEPT !.data = [k \in DOMAIN col.data \ {key} |-> col.data[k]]]

---------------------------------------------------------------------------
(* Group.__init__ *)

NoGroup == [exists |-> FALSE, collections |-> <<>>]

Uuids(collections) == {collections[i].uuid : i \in 1..Len(collections)}

\* the constructor without its check of the uuids
GroupCtorUnchecked(collections) ==
    [out |-> "ok", group |-> [exists |-> TRUE, collections |-> collections]]

\* Group(collections): KeyError on conflicting uuids, else the Group
GroupCtor(collections) ==
    IF Cardinality(Uuids(collections)) # Len(collections)
    THEN [out |-> "KeyError", group |-> NoGroup]
    ELSE [out |-> "ok", group |-> [exists |-> TRUE, collections |-> collections]]

\* GroupMeta.size: sum(collection.size for collection in self.collections)
RECURSIVE SumSizes(_)
SumSizes(collections) ==
    IF collections = <<>>
    THEN 0
    ELSE CollectionSize(Head(collections)) + SumSizes(Tail(collections))

---------------------------------------------------------------------------
(* Group.new *)

\* the loop run over range(size + 1)
RECURSIVE FillGapsInclusive(_, _, _, _, _)
FillGapsInclusive(items, keys, key, size, max_collection_size) ==
    IF key > size
    THEN items
    ELSE FillGapsInclusive(IF IntKey(key) \in keys
                           THEN items
                           ELSE DictSet(items, IntKey(key), max_collection_size),
                           keys, key + 1, size, max_collection_size)

\* for key in range(size): if key not in keys: custom[key] = max_collection_size
RECURSIVE FillGaps(_, _, _, _, _)
FillGaps(items, keys, key, size, max_collection_size) ==
    IF key >= size
    THEN items
    ELSE FillGaps(IF IntKey(key) \in keys
                  THEN items
                  ELSE DictSet(items, IntKey(key), max_collection_size),
                  keys, key + 1, size, max_collection_size)

\* tuple(Collection(max_size=v) for _, v in custom.items()): the i-th shard
\* constructed takes the i-th item's value, in the dict's order
CollectionsOf(items) ==
    [i \in 1..Len(items) |-> Collection(i, items[i].val)]

\* tuple(Collection(max_size=max_collection_size) for _ in range(size))
EqualCollections(n, max_collection_size) ==
    [i \in 1..n |-> Collection(i, max_collection_size)]

\* a Group.new that fills the gaps before it compares size with the highest key
NewFillingFirst(size, max_collection_size, strict, cust) ==
    IF ~TruthyDict(cust)
    THEN IF ~TruthyInt(size)
         THEN [out |-> "ValueError", group |-> NoGroup, custom |-> cust]
         ELSE LET g == GroupCtor(EqualCollections(size[1], max_collection_size))
              IN  [out |-> g.out, group |-> g.group, custom |-> cust]
    ELSE LET keys == DictKeys(cust.items)
         IN  IF \E k \in keys : ~k.isint
             THEN [out |-> "KeyError", group |-> NoGroup, custom |-> cust]
             ELSE LET sz == IF ~TruthyInt(size) THEN MaxKey(cust.items)
                                                ELSE size[1]
                      filled == FillGaps(cust.items, keys, 0, sz,
                                         max_collection_size)
                      g == GroupCtor(CollectionsOf(filled))
                  IN  IF sz # 0 /\ sz < MaxKey(cust.items)
                      THEN [out |-> "KeyError", group |-> NoGroup,
                            custom |-> Dict(filled)]
                      ELSE [out |-> g.out, group |-> g.group,
                            custom |-> Dict(filled)]

\* Group.new(size, max_collection_size, strict, custom): the outcome, the Group
\* returned and the caller's dict afterwards
New(size, max_collection_size, strict, cust) ==
    IF ~TruthyDict(cust)
    THEN IF ~TruthyInt(size)
         THEN [out |-> "ValueError", group |-> NoGroup, custom |-> cust]
         ELSE LET g == GroupCtor(EqualCollections(size[1], max_collection_size))
              IN  [out |-> g.out, group |-> g.group, custom |-> cust]
    ELSE LET keys == DictKeys(cust.items)
         IN  IF \E k \in keys : ~k.isint
             THEN [out |-> "KeyError", group |-> NoGroup, custom |-> cust]
             ELSE LET sz == IF ~TruthyInt(size) THEN MaxKey(cust.items)
                                                ELSE size[1]
                  IN  IF sz # 0 /\ sz < MaxKey(cust.items)
                      THEN [out |-> "KeyError", group |-> NoGroup,
                            custom |-> cust]
                      ELSE LET filled == FillGaps(cust.items, keys, 0, sz,
                                                  max_collection_size)
                               g == GroupCtor(CollectionsOf(filled))
                           IN  [out |-> g.out, group |-> g.group,
                                custom |-> Dict(filled)]

---------------------------------------------------------------------------
(* groupfn: the routing decorator *)

\* str.encode(): UTF-8, for code points below U+0800
RECURSIVE Encode(_)
Encode(key) ==
    IF key = <<>>
    THEN <<>>
    ELSE LET c == Head(key)
         IN  (IF c < 128 THEN <<c>>
                         ELSE <<192 + (c \div 64), 128 + (c % 64)>>)
             \o Encode(Tail(key))

\* int.from_bytes(b): big-endian
RECURSIVE IntFromBytes(_)
IntFromBytes(b) ==
    IF b = <<>>
    THEN 0
    ELSE IntFromBytes(SubSeq(b, 1, Len(b) - 1)) * 256 + b[Len(b)]

\* routing salted with the number of entries stored
SaltedIndex(g, key) ==
    LET n == Len(g.collections)
        used == Cardinality(UNION {DOMAIN g.collections[i].data : i \in 1..n})
    IN  IF n = 0
        THEN [out |-> "ZeroDivisionError", index |-> -1]
        ELSE [out |-> "ok", index |-> (IntFromBytes(Encode(key)) + used) % n]

\* index = int.from_bytes(key.encode()) % len(obj.collections), zero-based;
\* the modulo raises when the group has no collections
ShardIndex(g, key) ==
    LET n == Len(g.collections)
    IN  IF n = 0
        THEN [out |-> "ZeroDivisionError", index |-> -1]
        ELSE [out |-> "ok", index |-> IntFromBytes(Encode(key)) % n]

\* obj.collections[index]
Routed(g, index) == g.collections[index + 1]

---------------------------------------------------------------------------
(* State *)

NoCall ==
    [fn |-> "none", size |-> None, max_collection_size |-> 0, strict |-> FALSE,
     custom |-> NoCustom, collections |-> <<>>]

NoResult ==
    [op |-> "none", key |-> NoKey, value |-> None, out |-> "ok", ret |-> None,
     index |-> -1, fault |-> 0]

NothingWritten == [k \in Keys |-> None]

\* a caller that has made no call
NoWriter ==
    [pc |-> "idle", op |-> "none", key |-> NoKey, value |-> None,
     index |-> -1, out |-> "ok", ret |-> None]

\* base: the shards as they were when the two callers made their calls
NoWriters == [base |-> <<>>, w |-> <<NoWriter, NoWriter>>]

Init ==
    /\ call = NoCall
    /\ custom = NoCustom
    /\ group = NoGroup
    /\ result = NoResult
    /\ written = NothingWritten
    /\ writers = NoWriters

---------------------------------------------------------------------------
(* Inputs *)

Sizes(max) == {None} \cup {Some(n) : n \in -1..max}

DictKeyDomain(max) == {IntKey(n) : n \in -1..max} \cup {NonIntKey}

Items(max) == [key : DictKeyDomain(max), val : Capacities]

\* the dicts of at most len items over the keys up to max
Dicts(len, max) ==
    {d \in UNION {[1..n -> Items(max)] : n \in 0..len} :
        \A i, j \in 1..Len(d) : i # j => d[i].key # d[j].key}

Customs(len, max) == {NoCustom} \cup {Dict(d) : d \in Dicts(len, max)}

\* empty shards, as Collection(...) builds them, with identifiers from uuids
Shards(uuids) == [uuid : uuids, max_size : Capacities, strict : BOOLEAN,
                  data : {EmptyData}]

ShardSeqs(len, uuids) == UNION {[1..n -> Shards(uuids)] : n \in 0..len}

---------------------------------------------------------------------------
(* Construction *)

\* Group.new(size, max_collection_size, strict, custom)
GroupNew(size, max_collection_size, strict, cust) ==
    /\ call = NoCall
    /\ LET r == New(size, max_collection_size, strict, cust)
       IN  /\ group' = r.group
           /\ custom' = r.custom
           /\ result' = [NoResult EXCEPT !.op = "new", !.out = r.out]
    /\ call' = [NoCall EXCEPT !.fn = "new", !.size = size,
                              !.max_collection_size = max_collection_size,
                              !.strict = strict, !.custom = cust]
    /\ UNCHANGED <<written, writers>>

\* Group(collections)
GroupInit(collections) ==
    /\ call = NoCall
    /\ LET r == GroupCtor(collections)
       IN  /\ group' = r.group
           /\ result' = [NoResult EXCEPT !.op = "init", !.out = r.out]
    /\ call' = [NoCall EXCEPT !.fn = "init", !.collections = collections]
    /\ UNCHANGED <<custom, written, writers>>

---------------------------------------------------------------------------
(* Keyed operations, each routed by groupfn *)

\* an insert that, refused by the routed collection, tries the next one
InsertWithFallback(key, value) ==
    /\ group.exists
    /\ LET r == ShardIndex(group, key)
       IN  IF r.out # "ok"
           THEN /\ result' = [NoResult EXCEPT !.op = "insert", !.key = key,
                                 !.value = Some(value), !.out = r.out]
                /\ UNCHANGED <<group, written>>
           ELSE LET first == Routed(group, r.index)
                    index == IF CollectionInsertFails(first, key)
                             THEN (r.index + 1) % Len(group.collections)
                             ELSE r.index
                    col == Routed(group, index)
                IN  IF CollectionInsertFails(col, key)
                    THEN /\ result' = [NoResult EXCEPT !.op = "insert",
                                          !.key = key, !.value = Some(value),
                                          !.out = "CollectionCapacityError",
                                          !.index = r.index]
                         /\ UNCHANGED <<group, written>>
                    ELSE /\ group' = [group EXCEPT
                                        !.collections[index + 1] =
                                            CollectionInsert(col, key, value)]
                         /\ result' = [NoResult EXCEPT !.op = "insert",
                                          !.key = key, !.value = Some(value),
                                          !.index = r.index]
                         /\ written' = [written EXCEPT ![key] =
                                          Some([value |-> value,
                                                index |-> index])]
    /\ UNCHANGED <<call, custom, writers>>

\* Group.insert(key, value)
Insert(key, value) ==
    /\ group.exists
    /\ LET r == ShardIndex(group, key)
       IN  IF r.out # "ok"
           THEN /\ result' = [NoResult EXCEPT !.op = "insert", !.key = key,
                                 !.value = Some(value), !.out = r.out]
                /\ UNCHANGED <<group, written>>
           ELSE LET col == Routed(group, r.index)
                IN  IF CollectionInsertFails(col, key)
                    THEN /\ result' = [NoResult EXCEPT !.op = "insert",
                                          !.key = key, !.value = Some(value),
                                          !.out = "CollectionCapacityError",
                                          !.index = r.index]
                         /\ UNCHANGED <<group, written>>
                    ELSE /\ group' = [group EXCEPT
                                        !.collections[r.index + 1] =
                                            CollectionInsert(col, key, value)]
                         /\ result' = [NoResult EXCEPT !.op = "insert",
                                          !.key = key, !.value = Some(value),
                                          !.index = r.index]
                         /\ written' = [written EXCEPT ![key] =
                                          Some([value |-> value,
                                                index |-> r.index])]
    /\ UNCHANGED <<call, custom, writers>>

\* get reading the first collection, whatever the key
GetFirst(key) ==
    /\ group.exists
    /\ LET r == ShardIndex(group, key)
       IN  IF r.out # "ok"
           THEN result' = [NoResult EXCEPT !.op = "get", !.key = key,
                                           !.out = r.out]
           ELSE result' = [NoResult EXCEPT !.op = "get", !.key = key,
                              !.ret = CollectionGet(Routed(group, 0), key, None),
                              !.index = 0]
    /\ UNCHANGED <<call, custom, group, written, writers>>

\* Group.get(key, default=None)
Get(key) ==
    /\ group.exists
    /\ LET r == ShardIndex(group, key)
       IN  IF r.out # "ok"
           THEN result' = [NoResult EXCEPT !.op = "get", !.key = key,
                                           !.out = r.out]
           ELSE result' = [NoResult EXCEPT !.op = "get", !.key = key,
                              !.ret = CollectionGet(Routed(group, r.index),
                                                    key, None),
                              !.index = r.index]
    /\ UNCHANGED <<call, custom, group, written, writers>>

\* Group.pop(key, default=None)
Pop(key) ==
    /\ group.exists
    /\ LET r == ShardIndex(group, key)
       IN  IF r.out # "ok"
           THEN /\ result' = [NoResult EXCEPT !.op = "pop", !.key = key,
                                              !.out = r.out]
                /\ UNCHANGED <<group, written>>
           ELSE LET col == Routed(group, r.index)
                IN  /\ group' = [group EXCEPT !.collections[r.index + 1] =
                                                CollectionPop(col, key)]
                    /\ result' = [NoResult EXCEPT !.op = "pop", !.key = key,
                                     !.ret = CollectionGet(col, key, None),
                                     !.index = r.index]
                    /\ written' = [written EXCEPT ![key] = None]
    /\ UNCHANGED <<call, custom, writers>>

---------------------------------------------------------------------------
(* Collection: the other operations the Group delegates to *)

\* Collection.setdefault(key, value): the value stored, after storing value
\* when the key was absent
CollectionSetDefault(col, key, value) ==
    IF key \in DOMAIN col.data
    THEN col
    ELSE [col EXCEPT !.data =
            [k \in DOMAIN col.data \cup {key} |->
                IF k = key THEN value ELSE col.data[k]]]

\* Collection.has_key(key)
CollectionHasKey(col, key) == key \in DOMAIN col.data

\* Collection.clear()
CollectionClear(col) == [col EXCEPT !.data = EmptyData]

\* Collection.status, on the ordered scale 0 (nominal), 1 (at capacity),
\* 2 (over capacity)
CollectionStatus(col) ==
    IF CollectionSize(col) < col.max_size THEN 0
    ELSE IF CollectionSize(col) = col.max_size THEN 1 ELSE 2

---------------------------------------------------------------------------
(* GroupMeta *)

\* a GroupMeta that keeps the shards as they were when the Group was built
MetaSnapshot(g) ==
    [i \in 1..Len(g.collections) |-> CollectionClear(g.collections[i])]

\* GroupMeta.__init__: self.collections = tuple(self.obj.collections), a tuple
\* of the same Collection objects, so it reads their current state
MetaCollections(g) == g.collections

\* GroupMeta.max_size: sum(collection.max_size for collection in ...)
RECURSIVE SumMaxSizes(_)
SumMaxSizes(collections) ==
    IF collections = <<>>
    THEN 0
    ELSE Head(collections).max_size + SumMaxSizes(Tail(collections))

RECURSIVE Gcd(_, _)
Gcd(a, b) == IF b = 0 THEN a ELSE Gcd(b, a % b)

\* a / b of two non-negative ints, b # 0: the float, as the fraction in lowest
\* terms
TrueDiv(a, b) == <<a \div Gcd(a, b), b \div Gcd(a, b)>>

\* GroupMeta.usage: self.size / self.max_size
MetaUsage(g) ==
    LET size == SumSizes(MetaCollections(g))
        max_size == SumMaxSizes(MetaCollections(g))
    IN  IF max_size = 0
        THEN [out |-> "ZeroDivisionError", ret |-> None]
        ELSE [out |-> "ok", ret |-> Some(TrueDiv(size, max_size))]

\* the status of the first collection alone
FirstStatus(g) ==
    LET cs == MetaCollections(g)
    IN  IF cs = <<>>
        THEN [out |-> "ValueError", ret |-> None]
        ELSE [out |-> "ok", ret |-> Some(CollectionStatus(cs[1]))]

\* GroupMeta.status: max(collection.status for collection in self.collections);
\* max() of no collections raises
MetaStatus(g) ==
    LET cs == MetaCollections(g)
        ss == {CollectionStatus(cs[i]) : i \in 1..Len(cs)}
    IN  IF cs = <<>>
        THEN [out |-> "ValueError", ret |-> None]
        ELSE [out |-> "ok", ret |-> Some(CHOOSE m \in ss : \A x \in ss : x <= m)]

---------------------------------------------------------------------------
(* groupfn on a call whose first argument is not a str *)

StrArg(key) == [kind |-> "str", key |-> key]
\* no positional argument and no key keyword: key is None
NoArg == [kind |-> "none", key |-> NoKey]
\* an iterable of key-value pairs
ListArg == [kind |-> "list", key |-> NoKey]

\* key = kwargs.get('key', None if not args else args[0]); key.encode() raises
\* on anything but a str, before the modulo
Route(g, arg) ==
    IF arg.kind # "str"
    THEN [out |-> "AttributeError", index |-> -1]
    ELSE ShardIndex(g, arg.key)

---------------------------------------------------------------------------
(* The other operations of the Group *)

\* Group.setdefault(key, value)
SetDefault(key, value) ==
    /\ group.exists
    /\ LET r == ShardIndex(group, key)
       IN  IF r.out # "ok"
           THEN /\ result' = [NoResult EXCEPT !.op = "setdefault", !.key = key,
                                 !.value = Some(value), !.out = r.out]
                /\ UNCHANGED <<group, written>>
           ELSE LET col == Routed(group, r.index)
                    new == CollectionSetDefault(col, key, value)
                IN  /\ group' = [group EXCEPT !.collections[r.index + 1] = new]
                    /\ result' = [NoResult EXCEPT !.op = "setdefault",
                                     !.key = key, !.value = Some(value),
                                     !.ret = Some(new.data[key]),
                                     !.index = r.index]
                    /\ written' = [written EXCEPT ![key] =
                                     Some([value |-> new.data[key],
                                           index |-> r.index])]
    /\ UNCHANGED <<call, custom, writers>>

\* Group.has_key(key)
Has_key(key) ==
    /\ group.exists
    /\ LET r == ShardIndex(group, key)
       IN  IF r.out # "ok"
           THEN result' = [NoResult EXCEPT !.op = "has_key", !.key = key,
                                           !.out = r.out]
           ELSE result' = [NoResult EXCEPT !.op = "has_key", !.key = key,
                              !.ret = Some(CollectionHasKey(
                                              Routed(group, r.index), key)),
                              !.index = r.index]
    /\ UNCHANGED <<call, custom, group, written, writers>>

\* Group.update(collection), collection an iterable of key-value pairs: routed
\* by its first argument, the iterable itself
Update(entries) ==
    /\ group.exists
    /\ LET r == Route(group, ListArg)
       IN  /\ r.out # "ok"
           /\ result' = [NoResult EXCEPT !.op = "update",
                            !.value = Some(entries), !.out = r.out]
    /\ UNCHANGED <<call, custom, group, written, writers>>

\* Group.keys(), values(), items(), popitem(): routed with no key at all
Unkeyed(name) ==
    /\ group.exists
    /\ LET r == Route(group, NoArg)
       IN  /\ r.out # "ok"
           /\ result' = [NoResult EXCEPT !.op = name, !.out = r.out]
    /\ UNCHANGED <<call, custom, group, written, writers>>

\* a clear() that replaces every shard by a new, empty Collection
ClearByReplacing(fault) ==
    /\ group.exists
    /\ fault \in 0..Len(group.collections)
    /\ group' = [group EXCEPT !.collections =
                    [i \in 1..Len(group.collections) |->
                        Collection(Len(group.collections) + i,
                                   group.collections[i].max_size)]]
    /\ result' = [NoResult EXCEPT !.op = "clear", !.fault = fault]
    /\ UNCHANGED <<call, custom, written, writers>>

\* Group.clear(): not routed; it returns the function Collection.clear and
\* calls nothing. fault is the position of a shard whose own clear() would
\* raise at this moment (0: none would).
Clear(fault) ==
    /\ group.exists
    /\ fault \in 0..Len(group.collections)
    /\ result' = [NoResult EXCEPT !.op = "clear", !.fault = fault,
                                  !.ret = Some("Collection.clear")]
    /\ UNCHANGED <<call, custom, group, written, writers>>

\* Group.size
ReadSize ==
    /\ group.exists
    /\ result' = [NoResult EXCEPT !.op = "size",
                     !.ret = Some(SumSizes(MetaCollections(group)))]
    /\ UNCHANGED <<call, custom, group, written, writers>>

\* Group.usage
ReadUsage ==
    /\ group.exists
    /\ LET r == MetaUsage(group)
       IN  result' = [NoResult EXCEPT !.op = "usage", !.out = r.out,
                                      !.ret = r.ret]
    /\ UNCHANGED <<call, custom, group, written, writers>>

\* Group.status
ReadStatus ==
    /\ group.exists
    /\ LET r == MetaStatus(group)
       IN  result' = [NoResult EXCEPT !.op = "status", !.out = r.out,
                                      !.ret = r.ret]
    /\ UNCHANGED <<call, custom, group, written, writers>>

---------------------------------------------------------------------------
(* Extrema *)

\* a <= b for two str, compared code point by code point
RECURSIVE StrLeq(_, _)
StrLeq(a, b) ==
    IF a = <<>> THEN TRUE
    ELSE IF b = <<>> THEN FALSE
    ELSE IF Head(a) # Head(b) THEN Head(a) < Head(b)
    ELSE StrLeq(Tail(a), Tail(b))

\* Collection.maxKey(max): the greatest key <= max; ValueError when there is none
CollectionMaxKey(col, bound) ==
    LET ks == {k \in DOMAIN col.data : StrLeq(k, bound)}
    IN  IF ks = {}
        THEN [out |-> "ValueError", ret |-> None]
        ELSE [out |-> "ok",
              ret |-> Some(CHOOSE m \in ks : \A k \in ks : StrLeq(k, m))]

\* Collection.minKey(min): the least key >= min; ValueError when there is none
CollectionMinKey(col, bound) ==
    LET ks == {k \in DOMAIN col.data : StrLeq(bound, k)}
    IN  IF ks = {}
        THEN [out |-> "ValueError", ret |-> None]
        ELSE [out |-> "ok",
              ret |-> Some(CHOOSE m \in ks : \A k \in ks : StrLeq(m, k))]

\* the calls of maxKey and minKey: with no argument, or with a bound
BoundArgs == {NoArg} \cup {StrArg(k) : k \in Keys}

\* a maxKey that asks every shard and gives the greatest of their answers
maxKeyOfGroup(arg) ==
    /\ group.exists
    /\ LET r == Route(group, arg)
           all == [uuid |-> 0, max_size |-> 0, strict |-> FALSE,
                   data |-> [k \in UNION {DOMAIN group.collections[i].data :
                                            i \in 1..Len(group.collections)}
                                |-> 0]]
       IN  IF r.out # "ok"
           THEN result' = [NoResult EXCEPT !.op = "maxKey", !.key = arg.key,
                                           !.out = r.out]
           ELSE LET c == CollectionMaxKey(all, arg.key)
                IN  result' = [NoResult EXCEPT !.op = "maxKey",
                                  !.key = arg.key, !.out = c.out,
                                  !.ret = c.ret, !.index = r.index]
    /\ UNCHANGED <<call, custom, group, written, writers>>

\* Group.maxKey(max=None): routed by its first positional argument, the bound
maxKey(arg) ==
    /\ group.exists
    /\ LET r == Route(group, arg)
       IN  IF r.out # "ok"
           THEN result' = [NoResult EXCEPT !.op = "maxKey", !.key = arg.key,
                                           !.out = r.out]
           ELSE LET c == CollectionMaxKey(Routed(group, r.index), arg.key)
                IN  result' = [NoResult EXCEPT !.op = "maxKey",
                                  !.key = arg.key, !.out = c.out,
                                  !.ret = c.ret, !.index = r.index]
    /\ UNCHANGED <<call, custom, group, written, writers>>

\* Group.minKey(min=None): routed by its first positional argument, the bound
minKey(arg) ==
    /\ group.exists
    /\ LET r == Route(group, arg)
       IN  IF r.out # "ok"
           THEN result' = [NoResult EXCEPT !.op = "minKey", !.key = arg.key,
                                           !.out = r.out]
           ELSE LET c == CollectionMinKey(Routed(group, r.index), arg.key)
                IN  result' = [NoResult EXCEPT !.op = "minKey",
                                  !.key = arg.key, !.out = c.out,
                                  !.ret = c.ret, !.index = r.index]
    /\ UNCHANGED <<call, custom, group, written, writers>>

---------------------------------------------------------------------------
(* Two concurrent callers of write operations *)

\* the shard operation a routed write call ends in, on the collection it was
\* routed to: fn(obj, *args, **kwargs)(collection, *args, **kwargs)
ShardCall(col, op, key, value) ==
    CASE op = "insert" ->
            IF CollectionInsertFails(col, key)
            THEN [col |-> col, out |-> "CollectionCapacityError", ret |-> None]
            ELSE [col |-> CollectionInsert(col, key, value[1]), out |-> "ok",
                  ret |-> None]
      [] op = "pop" ->
            [col |-> CollectionPop(col, key), out |-> "ok",
             ret |-> CollectionGet(col, key, None)]
      [] op = "setdefault" ->
            LET new == CollectionSetDefault(col, key, value[1])
            IN  [col |-> new, out |-> "ok", ret |-> Some(new.data[key])]

\* what the call leaves as the last successful write of its key
WrittenBy(w, r) ==
    CASE w.op = "insert" /\ r.out = "ok" ->
            Some([value |-> w.value[1], index |-> w.index])
      [] w.op = "insert" /\ r.out # "ok" -> written[w.key]
      [] w.op = "pop" -> None
      [] w.op = "setdefault" ->
            Some([value |-> r.ret[1], index |-> w.index])

\* the write calls a caller can make
WriteCalls ==
    [op : {"insert", "setdefault"}, key : Keys, value : {Some(v) : v \in Values}]
    \cup [op : {"pop"}, key : Keys, value : {None}]

\* both callers make a call, of keys that are routed to different shards (the
\* first caller's to the lower one: the callers are alike)
WritersCall(a, b) ==
    /\ group.exists
    /\ writers = NoWriters
    /\ Len(group.collections) > 0
    /\ ShardIndex(group, a.key).index < ShardIndex(group, b.key).index
    /\ writers' =
        [base |-> group.collections,
         w |-> <<[NoWriter EXCEPT !.pc = "called", !.op = a.op, !.key = a.key,
                                  !.value = a.value],
                 [NoWriter EXCEPT !.pc = "called", !.op = b.op, !.key = b.key,
                                  !.value = b.value]>>]
    /\ UNCHANGED <<call, custom, group, result, written>>

\* groupfn up to collection = obj.collections[index]
WriterRoute(i) ==
    /\ writers.w[i].pc = "called"
    /\ LET r == ShardIndex(group, writers.w[i].key)
       IN  writers' = [writers EXCEPT !.w[i].pc = "routed",
                                      !.w[i].index = r.index]
    /\ UNCHANGED <<call, custom, group, result, written>>

\* groupfn's last line: the shard operation, on the collection picked
WriterApply(i) ==
    /\ writers.w[i].pc = "routed"
    /\ LET w == writers.w[i]
           r == ShardCall(group.collections[w.index + 1], w.op, w.key, w.value)
       IN  /\ group' = [group EXCEPT !.collections[w.index + 1] = r.col]
           /\ writers' = [writers EXCEPT !.w[i].pc = "returned",
                                         !.w[i].out = r.out,
                                         !.w[i].ret = r.ret]
           /\ written' = [written EXCEPT ![w.key] = WrittenBy(w, r)]
    /\ UNCHANGED <<call, custom, result>>

---------------------------------------------------------------------------
(* Specifications *)

\* One construction call, over the wide inputs: Group.new with any size,
\* strictness and custom layout, or the constructor on any shard sequence.
ConstructNew ==
    /\ call = NoCall
    /\ \E size \in Sizes(MaxSize), mcs \in MaxCollectionSizes,
          strict \in BOOLEAN, cust \in Customs(MaxCustomLen, MaxIndex) :
            GroupNew(size, mcs, strict, cust)

ConstructInit ==
    /\ call = NoCall
    /\ \E collections \in ShardSeqs(MaxShards, 1..MaxUuid) :
            GroupInit(collections)

NextNew == ConstructNew \/ ConstructInit

SpecNew == Init /\ [][NextNew]_vars

\* One construction call over the narrow inputs (a uniform layout or a custom
\* layout of one index; shards that carry their position as identifier), then
\* any sequence of keyed operations on the Group it returned.
OpCustoms ==
    {NoCustom} \cup
    {Dict(<<[key |-> IntKey(n), val |-> c]>>) : n \in 0..OpMaxSize,
                                                   c \in Capacities}

OpShardSeqs ==
    {cs \in ShardSeqs(OpMaxShards, 1..OpMaxShards) :
        \A i \in 1..Len(cs) : cs[i].uuid = i}

OpNew ==
    /\ call = NoCall
    /\ \E size \in Sizes(OpMaxSize), mcs \in MaxCollectionSizes,
          strict \in BOOLEAN, cust \in OpCustoms :
            GroupNew(size, mcs, strict, cust)

OpInit ==
    /\ call = NoCall
    /\ \E collections \in OpShardSeqs : GroupInit(collections)

Next ==
    \/ OpNew
    \/ OpInit
    \/ \E key \in Keys, value \in Values : Insert(key, value)
    \/ \E key \in Keys : Get(key)
    \/ \E key \in Keys : Pop(key)

Spec == Init /\ [][Next]_vars

\* One construction call over the narrow inputs, then any sequence of inserts,
\* pops and reads of the metrics.
NextMeta ==
    \/ OpNew
    \/ OpInit
    \/ \E key \in Keys, value \in Values : Insert(key, value)
    \/ \E key \in Keys : Pop(key)
    \/ ReadSize
    \/ ReadUsage
    \/ ReadStatus

SpecMeta == Init /\ [][NextMeta]_vars

\* One construction call over inputs narrower still (a uniform layout; shards
\* alike in capacity and strictness), then any sequence of all the operations
\* of the Group.
UniformShardSeqs ==
    {cs \in OpShardSeqs :
        \A i, j \in 1..Len(cs) : /\ cs[i].strict = cs[j].strict
                                 /\ cs[i].max_size = cs[j].max_size}

\* the iterables of pairs passed to update: one pair, and two pairs whose keys
\* differ
UpdateEntries ==
    {<<[key |-> <<97>>, value |-> 1]>>,
     <<[key |-> <<97>>, value |-> 1], [key |-> <<97, 98>>, value |-> 2]>>}

UnkeyedOps == {"keys", "values", "items", "popitem"}

AllNew ==
    /\ call = NoCall
    /\ \E size \in Sizes(OpMaxSize), mcs \in MaxCollectionSizes,
          strict \in BOOLEAN :
            GroupNew(size, mcs, strict, NoCustom)

AllInit ==
    /\ call = NoCall
    /\ \E collections \in UniformShardSeqs : GroupInit(collections)

NextAll ==
    \/ AllNew
    \/ AllInit
    \/ \E key \in Keys, value \in Values : Insert(key, value)
    \/ \E key \in Keys : Get(key)
    \/ \E key \in Keys : Pop(key)
    \/ \E key \in Keys, value \in Values : SetDefault(key, value)
    \/ \E key \in Keys : Has_key(key)
    \/ \E entries \in UpdateEntries : Update(entries)
    \/ \E name \in UnkeyedOps : Unkeyed(name)
    \/ \E fault \in 0..OpMaxShards : Clear(fault)
    \/ \E arg \in BoundArgs : maxKey(arg)
    \/ \E arg \in BoundArgs : minKey(arg)
    \/ ReadSize
    \/ ReadUsage
    \/ ReadStatus

SpecAll == Init /\ [][NextAll]_vars

\* One construction call over the narrowest inputs, any sequence of inserts,
\* then two callers whose write calls interleave step by step.
NextPair ==
    \/ AllNew
    \/ AllInit
    \/ /\ writers = NoWriters
       /\ \E key \in Keys, value \in Values : Insert(key, value)
    \/ \E a \in WriteCalls, b \in WriteCalls : WritersCall(a, b)
    \/ \E i \in 1..2 : WriterRoute(i)
    \/ \E i \in 1..2 : WriterApply(i)

SpecPair == Init /\ [][NextPair]_vars

---------------------------------------------------------------------------
(* Claims about construction, checked under SpecNew *)

\* the call was Group.new with a non-empty custom layout of integer keys
NewWithCustom ==
    /\ call.fn = "new"
    /\ TruthyDict(call.custom)
    /\ \A k \in DictKeys(call.custom.items) : k.isint

Built == result.out = "ok" /\ group.exists

ShardCount == Len(group.collections)

\* capacity of the shard at (zero-based) position i
CapacityAt(i) == group.collections[i + 1].max_size

\* C1: with a custom layout and no explicit size, the shard at position i has
\* capacity custom[i] for every index i in custom and max_collection_size for
\* every other position (stated for layouts of non-negative indices).
C1_GapFillByIndex ==
    (/\ NewWithCustom
     /\ call.size = None
     /\ \A k \in DictKeys(call.custom.items) : k.n >= 0
     /\ Built)
    => /\ \A k \in DictKeys(call.custom.items) :
            /\ k.n < ShardCount
            /\ CapacityAt(k.n) = DictGet(call.custom.items, k)
       /\ \A i \in 0..(ShardCount - 1) :
            ~HasKey(call.custom.items, IntKey(i))
                => CapacityAt(i) = call.max_collection_size

GivenOrHighest ==
    IF TruthyInt(call.size) THEN call.size[1] ELSE MaxKey(call.custom.items)

Larger(a, b) == IF a >= b THEN a ELSE b

C3_SizeRequired ==
    (call.fn = "new" /\ ~call.custom.given)
    => IF call.size = None \/ call.size[1] <= 0
       THEN result.out # "ok" /\ ~group.exists
       ELSE Built /\ ShardCount = call.size[1]

\* C4: every Group that construction returns has at least one shard.
C4_AtLeastOneShard == group.exists => ShardCount >= 1

\* C5: with a custom layout, an explicit size below the highest index fails
\* and no Group is returned.
C5_SizeBelowHighestIndex ==
    (/\ NewWithCustom
     /\ call.size # None
     /\ call.size[1] < MaxKey(call.custom.items))
    => result.out # "ok" /\ ~group.exists

\* C6: a custom layout with a non-integer key fails with the key-type error,
\* and no Group is built from a layout with a negative index.
C6_NonNegativeIntegerKeys ==
    (call.fn = "new" /\ TruthyDict(call.custom))
    => /\ (\E k \in DictKeys(call.custom.items) : ~k.isint)
            => result.out = "KeyError" /\ ~group.exists
       /\ (\E k \in DictKeys(call.custom.items) : k.isint /\ k.n < 0)
            => ~group.exists

\* two of the shards handed to the constructor share an identifier
SharedUuid(collections) ==
    \E i, j \in 1..Len(collections) :
        i # j /\ collections[i].uuid = collections[j].uuid

\* C7: the constructor fails on every shard sequence in which two shards share
\* an identifier, returning no Group; the identifiers of the shards of every
\* Group are pairwise distinct.
C7_UniqueIdentifiers ==
    /\ (call.fn = "init" /\ SharedUuid(call.collections))
            => result.out = "KeyError" /\ ~group.exists
    /\ group.exists => ~SharedUuid(group.collections)

\* C7 witness: the constructor refused two shards with one identifier
C7_Witness ==
    /\ call.fn = "init"
    /\ Len(call.collections) = 2
    /\ SharedUuid(call.collections)
    /\ result.out = "KeyError"
    /\ ~group.exists

---------------------------------------------------------------------------
(* Claims about the keyed operations, checked under Spec *)

\* Group.size
GroupSize == SumSizes(group.collections)

\* the step is an insert of a new key routed to a shard that was filled up to
\* its capacity
InsertIntoFullShard ==
    /\ call.fn = "new"
    /\ group.exists
    /\ result'.op = "insert"
    /\ result'.index >= 0
    /\ LET col == group.collections[result'.index + 1]
       IN  /\ result'.key \notin DOMAIN col.data
           /\ col.max_size > 0
           /\ CollectionSize(col) = col.max_size

\* C8: in a Group built by Group.new with strict=true, an insert of a new key
\* routed to a shard at capacity fails with the capacity error and leaves the
\* size unchanged; built with strict=false, it succeeds and the size grows by 1.
C8_StrictThreaded ==
    [][InsertIntoFullShard
        => IF call.strict
           THEN result'.out = "CollectionCapacityError" /\ GroupSize' = GroupSize
           ELSE result'.out = "ok" /\ GroupSize' = GroupSize + 1]_vars

\* C9: a get of a key whose last write was a successful insert, not popped
\* since, reads the shard that received the insert and returns its value.
C9_ReadAfterWrite ==
    (result.op = "get" /\ written[result.key] # None)
    => /\ result.out = "ok"
       /\ result.index = written[result.key][1].index
       /\ result.ret = Some(written[result.key][1].value)

\* C9 witness: a key was read back after inserts of two other keys, in a group
\* of several shards
C9_Witness ==
    /\ result.op = "get"
    /\ written[result.key] # None
    /\ ShardCount >= 2
    /\ \A k \in Keys : written[k] # None
    /\ \E k \in Keys : written[k][1].index # result.index

\* int.from_bytes(key.encode()) of the keys "a", "ab" and "é", from Python
KeyCode(key) ==
    CASE key = <<97>> -> 97
      [] key = <<97, 98>> -> 24930
      [] key = <<233>> -> 50089

Routes == {"insert", "get", "pop"}

\* the index of the last keyed call is the key's integer encoding modulo the
\* shard count, whatever the shards hold; with no shards the modulo fails
RoutedByKeyAndCount ==
    (result.op \in Routes)
    => IF ShardCount = 0
       THEN result.out = "ZeroDivisionError" /\ result.index = -1
       ELSE /\ result.out # "ZeroDivisionError"
            /\ result.index = KeyCode(result.key) % ShardCount
            /\ result.index \in 0..(ShardCount - 1)

\* C10: the routed index is integer_encoding(key) mod shard_count, lies in
\* 0..shard_count-1, is the same whatever the shards contain, and a call that
\* only routes and reads (get) changes no state of the group.
C10_RoutingPure ==
    /\ []RoutedByKeyAndCount
    /\ [][result'.op = "get" => group' = group /\ written' = written]_vars

\* C10 witness: two keys with different encodings were routed to the same
\* shard of a group of several shards, one of them a multi-byte key
C10_Witness ==
    /\ result.op = "get"
    /\ result.key = <<233>>
    /\ ShardCount = 3
    /\ result.index = 1
    /\ written[<<97>>] # None
    /\ written[<<97>>][1].index = 1
    /\ written[<<97, 98>>] # None

---------------------------------------------------------------------------
(* Claims about the metrics, checked under SpecMeta *)

\* the entries the shards hold now, each with the position of its shard
StoredNow ==
    {<<i, k>> : i \in 1..ShardCount, k \in Keys} \cap
    UNION {{<<i, k>> : k \in DOMAIN group.collections[i].data} :
            i \in 1..ShardCount}

\* one slot per unit of capacity of every shard
SlotsNow ==
    UNION {{<<i, c>> : c \in 1..group.collections[i].max_size} :
            i \in 1..ShardCount}

\* C11: a read of size gives the sum of the shards' current sizes, which is the
\* number of keys inserted and not popped since; a read of usage gives
\* size / max_size of the shards' current state (the division raising when
\* max_size is 0).
C11_AggregateAccounting ==
    /\ (result.op = "size")
        => /\ result.out = "ok"
           /\ result.ret = Some(Cardinality(StoredNow))
           /\ result.ret = Some(Cardinality({k \in Keys : written[k] # None}))
    /\ (result.op = "usage")
        => IF Cardinality(SlotsNow) = 0
           THEN result.out = "ZeroDivisionError"
           ELSE /\ result.out = "ok"
                /\ result.ret[1][1] * Cardinality(SlotsNow)
                    = result.ret[1][2] * Cardinality(StoredNow)
                /\ result.ret[1][2] > 0

\* C11 witness: usage was read as 3/2 with every key stored, over two shards
C11_Witness ==
    /\ result.op = "usage"
    /\ result.ret = Some(<<3, 2>>)
    /\ ShardCount = 2
    /\ \A k \in Keys : written[k] # None

\* status of the shard at position i (from 1)
StatusAt(i) == CollectionStatus(group.collections[i])

\* C12: a read of status gives the greatest of the shards' current statuses
\* (max() raising on a group with no shards).
C12_StatusIsWorstShard ==
    (result.op = "status")
    => IF ShardCount = 0
       THEN result.out = "ValueError"
       ELSE /\ result.out = "ok"
            /\ \E i \in 1..ShardCount : StatusAt(i) = result.ret[1]
            /\ \A i \in 1..ShardCount : StatusAt(i) <= result.ret[1]

\* C12 witness: the worst status came from a shard other than the first
C12_Witness ==
    /\ result.op = "status"
    /\ result.ret = Some(2)
    /\ ShardCount >= 2
    /\ StatusAt(1) = 0

\* C20: on a Group whose shards all have capacity zero, usage is reported as 0;
\* the read never ends in a division by zero.
C20_UsageOfZeroCapacity ==
    (/\ group.exists
     /\ ShardCount >= 1
     /\ Cardinality(SlotsNow) = 0
     /\ result.op = "usage")
    => /\ result.out = "ok"
       /\ result.ret = Some(<<0, 1>>)

---------------------------------------------------------------------------
(* Claims about the other operations, checked under SpecAll *)

\* C13: after clear() returns successfully every shard is empty and the size of
\* the group is 0.
C13_ClearEmptiesEveryShard ==
    (result.op = "clear" /\ result.out = "ok")
    => /\ \A i \in 1..ShardCount : group.collections[i].data = EmptyData
       /\ SumSizes(group.collections) = 0

\* C14: when the clear of one shard fails, clear() is reported as failed: it
\* never returns success while that shard still holds entries.
C14_ShardFailureFailsClear ==
    (/\ result.op = "clear"
     /\ result.fault # 0
     /\ group.collections[result.fault].data # EmptyData)
    => result.out # "ok"

\* the identity, capacity and policy of every shard, in order
ShardSequence(g) ==
    [i \in 1..Len(g.collections) |->
        [uuid |-> g.collections[i].uuid,
         max_size |-> g.collections[i].max_size,
         strict |-> g.collections[i].strict]]

\* C15: once the Group is built, no operation adds, removes, replaces or
\* reorders a shard: the shard count and the shards' identities stay as they are.
C15_ShardSequenceFixed ==
    [][group.exists
        => /\ group'.exists
           /\ Len(group'.collections) = Len(group.collections)
           /\ ShardSequence(group') = ShardSequence(group)]_vars

\* C15 witness: clear() was called on a group of two shards that hold entries,
\* and the two shards are there under their own identities
C15_Witness ==
    /\ result.op = "clear"
    /\ ShardCount = 2
    /\ call.fn = "init"
    /\ ShardSequence(group) = ShardSequence([collections |-> call.collections])
    /\ \A i \in 1..2 : group.collections[i].data # EmptyData

\* C16: update(entries) on a non-strict Group stores every pair: it succeeds
\* and afterwards every key of entries reads as its value, in the shard the key
\* is routed to.
C16_UpdateStoresEveryPair ==
    (/\ result.op = "update"
     /\ ShardCount >= 1
     /\ \A i \in 1..ShardCount : ~group.collections[i].strict)
    => /\ result.out = "ok"
       /\ \A n \in 1..Len(result.value[1]) :
            LET e == result.value[1][n]
                col == group.collections[(KeyCode(e.key) % ShardCount) + 1]
            IN  \/ CollectionGet(col, e.key, None) = Some(e.value)
                \/ \E m \in (n + 1)..Len(result.value[1]) :
                        result.value[1][m].key = e.key

\* C17: keys(), values() and items() called with no arguments succeed.
C17_FullViewsSucceed ==
    (result.op \in {"keys", "values", "items"} /\ ShardCount >= 1)
    => result.out = "ok"

KeyedOps == {"get", "insert", "pop", "setdefault", "has_key"}

\* what the shard operation named op does to the collection col and returns
ShardOutcome(col, op, key, value) ==
    CASE op = "get" ->
            [col |-> col, out |-> "ok", ret |-> CollectionGet(col, key, None)]
      [] op = "has_key" ->
            [col |-> col, out |-> "ok", ret |-> Some(CollectionHasKey(col, key))]
      [] OTHER -> ShardCall(col, op, key, value)

\* C19: a call of get, insert, pop, setdefault or has_key does the shard
\* operation of that name once, on the shard at the routed index of its key:
\* that shard becomes what the operation leaves, the call gives the operation's
\* result or error, and every other shard stays as it was.
C19_OneShardTouched ==
    [][(group.exists /\ ShardCount >= 1 /\ result'.op \in KeyedOps)
        => LET index == KeyCode(result'.key) % ShardCount
               r == ShardOutcome(group.collections[index + 1], result'.op,
                                 result'.key, result'.value)
           IN  /\ result'.index = index
               /\ result'.out = r.out
               /\ result'.ret = r.ret
               /\ group'.collections[index + 1] = r.col
               /\ \A j \in 1..ShardCount :
                    j # index + 1
                    => group'.collections[j] = group.collections[j]]_vars

\* C19 witness: an insert was refused by its shard, which is full, while
\* another shard had room
C19_Witness ==
    /\ result.op = "insert"
    /\ result.out = "CollectionCapacityError"
    /\ ShardCount = 2
    /\ \E j \in 1..2 :
        /\ j # result.index + 1
        /\ ~CollectionInsertFails(group.collections[j], result.key)

---------------------------------------------------------------------------
(* Claims about concurrent callers, checked under SpecPair *)

\* the call w made alone on the shards cs: what it leaves and gives
Sequential(cs, w) ==
    LET r == ShardIndex([exists |-> TRUE, collections |-> cs], w.key)
        sc == ShardCall(cs[r.index + 1], w.op, w.key, w.value)
    IN  [collections |-> [cs EXCEPT ![r.index + 1] = sc.col],
         out |-> sc.out, ret |-> sc.ret]

BothReturned == \A i \in 1..2 : writers.w[i].pc = "returned"

\* C18: two write calls (insert, pop, setdefault) of keys routed to different
\* shards, interleaved in any way, leave every shard as both sequential orders
\* leave it and give each caller the result either order gives it.
C18_WritersInterleaveFreely ==
    BothReturned
    => LET a == writers.w[1]
           b == writers.w[2]
           a1 == Sequential(writers.base, a)
           a1b2 == Sequential(a1.collections, b)
           b1 == Sequential(writers.base, b)
           b1a2 == Sequential(b1.collections, a)
       IN  /\ group.collections = a1b2.collections
           /\ group.collections = b1a2.collections
           /\ <<a.out, a.ret>> = <<a1.out, a1.ret>>
           /\ <<a.out, a.ret>> = <<b1a2.out, b1a2.ret>>
           /\ <<b.out, b.ret>> = <<b1.out, b1.ret>>
           /\ <<b.out, b.ret>> = <<a1b2.out, a1b2.ret>>

\* C18 witness: both callers returned, one from a pop that took an entry out,
\* the other from an insert its shard refused
C18_Witness ==
    /\ BothReturned
    /\ writers.w[1].op = "pop"
    /\ writers.w[1].ret # None
    /\ writers.w[2].op = "insert"
    /\ writers.w[2].out = "CollectionCapacityError"
    /\ writers.w[1].index # writers.w[2].index

---------------------------------------------------------------------------
(* Claims about the caller's custom mapping, checked under SpecNew *)

\* the caller's mapping after the call is the mapping passed, every pair in its
\* place, followed by an entry index -> max_collection_size for each index of
\* 0..s-1 that was missing (s the explicit size, or the highest index when no
\* size is given), and by nothing else
OnlyGapsFilled ==
    /\ Len(custom.items) >= Len(call.custom.items)
    /\ SubSeq(custom.items, 1, Len(call.custom.items)) = call.custom.items
    /\ \A i \in 0..(GivenOrHighest - 1) :
        ~HasKey(call.custom.items, IntKey(i))
            => /\ HasKey(custom.items, IntKey(i))
               /\ DictGet(custom.items, IntKey(i)) = call.max_collection_size
    /\ \A k \in DictKeys(custom.items) \ DictKeys(call.custom.items) :
        k.isint /\ k.n \in 0..(GivenOrHighest - 1)

\* C22 as stated: after a successful Group.new the mapping passed as custom
\* holds its original pairs and an entry for each missing index of 0..size-1;
\* after a failed one it is as it was passed.
C22_MappingGapFilled ==
    (call.fn = "new" /\ call.custom.given)
    => /\ custom.given
       /\ IF Built THEN OnlyGapsFilled ELSE custom = call.custom

\* C22 amended: that holds for a mapping that is not empty; an empty mapping
\* is taken as no layout, and is left empty whether the call succeeds or fails.
C22_NonEmptyMappingGapFilled ==
    (call.fn = "new" /\ call.custom.given)
    => /\ custom.given
       /\ IF Built /\ TruthyDict(call.custom)
          THEN OnlyGapsFilled
          ELSE custom = call.custom

\* C22 witness: a successful call with the layout {2: c} and no size left the
\* caller's mapping with the entries 0 and 1 added after it
C22_Witness ==
    /\ call.fn = "new"
    /\ Built
    /\ call.size = None
    /\ DictKeys(call.custom.items) = {IntKey(2)}
    /\ Len(custom.items) = 3
    /\ custom.items[2].key = IntKey(0)
    /\ custom.items[3].key = IntKey(1)

---------------------------------------------------------------------------
(* Claims about the extrema, checked under SpecAll *)

\* the place of a key in the order of the keys
KeyRank(key) ==
    CASE key = <<97>> -> 1
      [] key = <<97, 98>> -> 2
      [] key = <<233>> -> 3

\* the keys of the shard the bound of the last call is routed to that lie on
\* the asked side of the bound
WithinBound ==
    LET col == group.collections[(KeyCode(result.key) % ShardCount) + 1]
    IN  {k \in DOMAIN col.data :
            IF result.op = "maxKey"
            THEN KeyRank(k) <= KeyRank(result.key)
            ELSE KeyRank(k) >= KeyRank(result.key)}

====
